---------------------------- MODULE Spec2Model ----------------------------
(***************************************************************************)
(* Model of the tile downloader of src/task.py: the MBTiles store          *)
(* (MBTilesManager), the geometry filter (tile_bounds,                     *)
(* tiles_in_priority_zones) and the scheduler (TileDownloader) with its    *)
(* thread pool, admission semaphore and progress counter.                  *)
(*                                                                         *)
(* Geometry.  tile_bounds maps a tile to longitude/latitude.  Longitude is *)
(* linear in x and latitude is a strictly decreasing function of y, so the *)
(* model measures both axes in grid units: the world is [0, Grid] on each  *)
(* axis, longitude grows eastward and latitude grows northward.  A region  *)
(* is an axis-aligned box with corners on a lattice.  Intersection of      *)
(* boxes is invariant under a strictly monotone change of either axis.     *)
(*                                                                         *)
(* Fetcher.  The HTTP transport is external: every call returns status 200 *)
(* with a body, returns another status, or raises.  The body of a          *)
(* response is the symbolic value [url, gen]: the bytes the server sent    *)
(* for that url in run number gen.                                         *)
(*                                                                         *)
(* Specifications.  Spec: runs of the scheduler against one store.         *)
(* SpecLive: one run under fair scheduling.  SpecTiles: the tile lists for *)
(* every zoom range and region.  SpecStore: the store's methods called     *)
(* directly, in any order.                                                 *)
(***************************************************************************)
EXTENDS Integers, Sequences, FiniteSets, TLC

\* ------------------------------------------------------------- bounds ---
\* Largest zoom level of the tile-list specification (SpecTiles).
MaxZoom == 2
\* Region corners lie on a lattice of this many cells per axis.
RegionCells == 4
\* Largest zoom level of a scheduled run (Spec, SpecLive).
RunMaxZoom == 1
\* Largest config.max_threads.
MaxThreads == 2
\* Largest config.rate_limit.
MaxRate == 2
\* Calls of the store or the fetcher that fail, over all runs.
MaxFaults == 1
\* Runs against the same store.
MaxRuns == 2
\* Direct calls of the store's methods (SpecStore).
MaxCalls == 2

\* ---------------------------------------------------------- constants ---
\* response.status_code of a successful fetch (task.py line 134).
StatusOK == 200

Pow2(n) == 2 ^ n

Min(a, b) == IF a <= b THEN a ELSE b

Max(a, b) == IF a >= b THEN a ELSE b

\* Grid units per axis: a multiple of the number of tiles per axis at every
\* zoom level of SpecTiles and of the number of region cells.
Grid == Pow2(MaxZoom) * RegionCells

\* The grid points a region corner can lie on.
Lattice == {k * Pow2(MaxZoom) : k \in 0..RegionCells}

\* ------------------------------------------------------ MBTilesManager ---
\* The TMS row of XYZ row y: 2**zoom - 1 - y.
FlipRow(zoom, y) == Pow2(zoom) - 1 - y

\* tile_exists without the flip: it looks the XYZ row up.
ExistsRowNoFlip(zoom, y) == y

\* The row tile_exists looks up (second statement of tile_exists).
ExistsRow(zoom, y) == FlipRow(zoom, y)

\* save_tile without the flip: it writes the XYZ row.
SaveRowNoFlip(zoom, y) == y

\* The row save_tile writes.
SaveRow(zoom, y) == FlipRow(zoom, y)

\* SELECT COUNT(*) FROM tiles WHERE zoom_level=? AND tile_column=? AND
\* tile_row=? ... > 0
TileExists(tbl, zoom, x, y) ==
    Cardinality({r \in tbl : /\ r.zoom_level = zoom
                             /\ r.tile_column = x
                             /\ r.tile_row = ExistsRow(zoom, y)}) > 0

\* INSERT INTO tiles on a table without the primary key: the record is
\* added whatever the table holds.
SaveTileInsertOnly(tbl, zoom, x, y, tile_data) ==
    tbl \cup {[zoom_level |-> zoom, tile_column |-> x,
               tile_row |-> SaveRow(zoom, y), tile_data |-> tile_data]}

\* INSERT OR REPLACE INTO tiles: the primary key
\* (zoom_level, tile_column, tile_row) keeps one record per key.
SaveTile(tbl, zoom, x, y, tile_data) ==
    LET rec == [zoom_level |-> zoom, tile_column |-> x,
                tile_row |-> SaveRow(zoom, y), tile_data |-> tile_data]
    IN  {r \in tbl : ~(/\ r.zoom_level = rec.zoom_level
                       /\ r.tile_column = rec.tile_column
                       /\ r.tile_row = rec.tile_row)} \cup {rec}

\* The rows of table metadata are records [rowid, name, value].
\* The rowid sqlite gives a new row: one more than the largest in use.
NewRowid(tbl) ==
    IF tbl = {} THEN 1
    ELSE 1 + CHOOSE n \in {r.rowid : r \in tbl} :
                 \A r \in tbl : r.rowid <= n

\* INSERT INTO metadata without OR REPLACE and without the UNIQUE(name)
\* constraint: the row is added whatever the table holds.
InsertMetadata(tbl, name, value) ==
    tbl \cup {[rowid |-> NewRowid(tbl), name |-> name, value |-> value]}

\* INSERT OR REPLACE INTO metadata (name, value) VALUES (?, ?): UNIQUE(name)
\* makes sqlite delete the row of that name before it inserts the new one.
InsertOrReplaceMetadata(tbl, name, value) ==
    LET kept == {r \in tbl : r.name # name}
    IN  kept \cup {[rowid |-> NewRowid(kept), name |-> name, value |-> value]}

\* The list metadata of initialize_db.
DefaultMetadata ==
    << << "name", "OpenStreetMapTiles" >>,
       << "type", "overlay" >>,
       << "version", "1.1" >>,
       << "description", "OpenStreetMap tile downloader" >>,
       << "format", "png" >> >>

RECURSIVE InsertAll(_, _, _)
\* for name, value in metadata: cur.execute("INSERT OR REPLACE ...")
InsertAll(tbl, list, k) ==
    IF k > Len(list) THEN tbl
    ELSE InsertAll(InsertOrReplaceMetadata(tbl, list[k][1], list[k][2]),
                   list, k + 1)

\* initialize_db on table metadata.  Both CREATE TABLE IF NOT EXISTS leave an
\* existing table, and so table tiles, as it is.
InitializeDb(tbl) == InsertAll(tbl, DefaultMetadata, 1)

\* ------------------------------------------------------ geometry filter ---
\* tile_bounds: (lon_min, lat_min, lon_max, lat_max).  lat_min is computed
\* from y and lat_max from y + 1, so lat_min is the northern edge and is the
\* larger of the two.
TileBounds(x, y, z) ==
    LET side == Grid \div Pow2(z)
    IN  << x * side, Grid - y * side, (x + 1) * side, Grid - (y + 1) * side >>

\* shapely.geometry.box(minx, miny, maxx, maxy): the rectangle spanned by
\* the two corners, whichever way round they are given.
Box(minx, miny, maxx, maxy) ==
    [xlo |-> Min(minx, maxx), xhi |-> Max(minx, maxx),
     ylo |-> Min(miny, maxy), yhi |-> Max(miny, maxy)]

\* a.intersects(b) for two rectangles: they share at least one point.
Intersects(a, b) ==
    /\ a.xlo <= b.xhi /\ b.xlo <= a.xhi
    /\ a.ylo <= b.yhi /\ b.ylo <= a.yhi

\* shape(geojson['features'][0]['geometry'])
FirstGeometry(geojson) == geojson[1]

\* for x in range(2 ** zoom): for y in range(2 ** zoom): (zoom, x, y)
GridTiles(zoom) ==
    LET n == Pow2(zoom)
    IN  [k \in 1..(n * n) |-> << zoom, (k - 1) \div n, (k - 1) % n >>]

\* The test of tiles_in_priority_zones on one tile.
InZone(t, geojson) ==
    LET bounds == TileBounds(t[2], t[3], t[1])
        tile_poly == Box(bounds[1], bounds[2], bounds[3], bounds[4])
    IN  Intersects(tile_poly, FirstGeometry(geojson))

\* tiles_in_priority_zones(zoom, geojson)
TilesInPriorityZones(zoom, geojson) ==
    SelectSeq(GridTiles(zoom), LAMBDA t : InZone(t, geojson))

\* --------------------------------------------- download_tiles_to_mbtiles ---
RECURSIVE PriorityFrom(_, _, _)
\* for zoom in range(zoom_levels[0], zoom_levels[1] + 1):
\*     priority_tiles += self.tiles_in_priority_zones(zoom, geojson)
PriorityFrom(zoom, zmax, geojson) ==
    IF zoom > zmax THEN << >>
    ELSE TilesInPriorityZones(zoom, geojson)
           \o PriorityFrom(zoom + 1, zmax, geojson)

\* priority_tiles: empty without a geojson_path.
PriorityTiles(zooms, geojson) ==
    IF geojson = << >> THEN << >>
    ELSE PriorityFrom(zooms[1], zooms[2], geojson)

RECURSIVE FullFrom(_, _)
\* The full grid of the zoom range in the order of the comprehension.
FullFrom(zoom, zmax) ==
    IF zoom > zmax THEN << >>
    ELSE GridTiles(zoom) \o FullFrom(zoom + 1, zmax)

\* (zoom, x, y) in priority_tiles
InList(t, list) == \E k \in 1..Len(list) : list[k] = t

\* The comprehension without its "not in priority_tiles" filter.
NonPriorityTilesNoFilter(zooms, priority) == FullFrom(zooms[1], zooms[2])

\* non_priority_tiles: the grid tiles that are not in priority_tiles.
NonPriorityTiles(zooms, priority) ==
    SelectSeq(FullFrom(zooms[1], zooms[2]), LAMBDA t : ~InList(t, priority))

\* The two lists joined the other way round.
AllTilesRemainderFirst(priority, non_priority) == non_priority \o priority

\* all_tiles = priority_tiles + non_priority_tiles
AllTiles(priority, non_priority) == priority \o non_priority

RECURSIVE TotalFrom(_, _)
\* total_tiles = sum([4 ** z for z in range(...)])
TotalFrom(zoom, zmax) ==
    IF zoom > zmax THEN 0 ELSE 4 ^ zoom + TotalFrom(zoom + 1, zmax)

\* The sum over range(zoom_levels[0], zoom_levels[1]), without the + 1.
TotalTilesShortRange(zooms) == TotalFrom(zooms[1], zooms[2] - 1)

TotalTiles(zooms) == TotalFrom(zooms[1], zooms[2])

\* ---------------------------------------------------------------- state ---
VARIABLES
    zoom_levels,        \* config.zoom_levels, << min, max >>
    rate_limit,         \* config.rate_limit
    max_threads,        \* config.max_threads
    geojson,            \* the region's features; << >> without geojson_path
    tiles_table,        \* the records of table tiles
    metadata,           \* the rows of table metadata
    calls,              \* the store's methods called directly, in order
    run,                \* number of the current run against the store
    phase,              \* where the main thread is
    priority_tiles,     \* locals of download_tiles_to_mbtiles
    non_priority_tiles,
    all_tiles,
    total_tiles,
    items,              \* one record per submitted future, in submission order
    next,               \* index of the first item still in the pool's queue
    semaphore,          \* free permits of self.semaphore
    pbar,               \* pbar.n, the progress counter
    worker,             \* per pool thread: pc, item, response, exception
    conn,               \* pool threads holding an open sqlite connection
    faults,             \* failed store/fetcher calls so far
    results             \* per finished run: the counts of terminal states

config == << zoom_levels, rate_limit, max_threads, geojson >>

\* What no step of a run changes.
fixed == << config, metadata, calls >>

plan == << priority_tiles, non_priority_tiles, all_tiles, total_tiles >>

pool == << next, semaphore, pbar, worker, conn, faults >>

vars == << fixed, tiles_table, run, phase, plan, items, pool, results >>

Threads == 1..MaxThreads

\* Zoom ranges up to zoom level zmax.
ZoomRanges(zmax) == {zr \in (0..zmax) \X (0..zmax) : zr[1] <= zr[2]}

\* Regions: boxes of positive area with corners on the lattice.
Regions ==
    {Box(q[1], q[2], q[3], q[4]) :
        q \in {q \in Lattice \X Lattice \X Lattice \X Lattice :
                   q[1] < q[3] /\ q[2] < q[4]}}

\* The region that exactly covers the bounding box of a tile.
TileRegion(zoom, x, y) ==
    LET bounds == TileBounds(x, y, zoom)
    IN  Box(bounds[1], bounds[2], bounds[3], bounds[4])

\* The regions that cover one quadrant of the world: a tile of zoom level 1.
QuadrantRegions == {TileRegion(1, q[1], q[2]) : q \in (0..1) \X (0..1)}

\* What geojson_path can lead to: no region, or a file with one feature.
GeoJsons == {<< >>} \cup {<< g >> : g \in Regions \cup QuadrantRegions}

\* The regions of the scheduled runs: none, the whole world, and the inside
\* of the south-east quadrant's south-east corner tile.
RunGeoJsons ==
    { << >>,
      << Box(0, 0, Grid, Grid) >>,
      << Box(Grid - 1, 0, Grid, 1) >> }

\* A semaphore with one permit per unit of rate_limit.
PermitsRateOnly(rate, threads) == rate

\* threading.Semaphore(config.rate_limit * config.max_threads): the permits.
Permits(rate, threads) == rate * threads

IdleWorker == [pc |-> "idle", item |-> 0, response |-> << >>, exc |-> FALSE]

\* A future as executor.submit creates it, with the history of its task:
\* state is the work item's state (PENDING, CHECKING, FETCHING, SKIPPED,
\* STORED, FAILED), fut the future's, exists/fetch/save/updates count the
\* calls of tile_exists, session_manager.get, save_tile and pbar.update made
\* for it, found is what tile_exists returned, status what the fetch
\* returned, raised the call that raised, saved the arguments of save_tile.
NewItem(t) ==
    [tile |-> t, state |-> "PENDING", fut |-> "pending",
     exists |-> 0, fetch |-> 0, save |-> 0, updates |-> 0,
     found |-> "none", status |-> "none", raised |-> "none",
     saved |-> << >>]

\* The state in which no run has started: the store as it is, no plan.
Fresh ==
    /\ phase = "init"
    /\ priority_tiles = << >>
    /\ non_priority_tiles = << >>
    /\ all_tiles = << >>
    /\ total_tiles = 0
    /\ items = << >>
    /\ next = 1
    /\ semaphore = Permits(rate_limit, max_threads)
    /\ pbar = 0
    /\ worker = [w \in Threads |-> IdleWorker]
    /\ conn = {}

InitWith(zmax, geos) ==
    /\ zoom_levels \in ZoomRanges(zmax)
    /\ rate_limit \in 0..MaxRate
    /\ max_threads \in 1..MaxThreads
    /\ geojson \in geos
    /\ metadata = InitializeDb(InitializeDb({}))
    /\ calls = << >>
    /\ run = 1
    /\ faults = 0
    /\ results = << >>
    /\ Fresh

\* After construction of Config, MBTilesManager and TileDownloader:
\* initialize_db has run twice, in MBTilesManager() and in the entry point.
Init == InitWith(RunMaxZoom, RunGeoJsons) /\ tiles_table = {}

\* ------------------------------------------------------------- main thread ---
\* download_tiles_to_mbtiles up to the call of download_tiles.
Plan ==
    /\ phase = "init"
    /\ priority_tiles' = PriorityTiles(zoom_levels, geojson)
    /\ total_tiles' = TotalTiles(zoom_levels)
    /\ non_priority_tiles' = NonPriorityTiles(zoom_levels, priority_tiles')
    /\ all_tiles' = AllTiles(priority_tiles', non_priority_tiles')
    /\ phase' = "submit"
    /\ UNCHANGED << fixed, tiles_table, run, items, pool, results >>

\* One executor.submit of the comprehension of download_tiles.
SubmitOne ==
    /\ phase = "submit"
    /\ Len(items) < Len(all_tiles)
    /\ items' = Append(items, NewItem(all_tiles[Len(items) + 1]))
    /\ UNCHANGED << fixed, tiles_table, run, phase, plan, pool, results >>

\* Whether every future of the run is done and its result was looked at.
AllHandled ==
    /\ Len(items) = Len(all_tiles)
    /\ \A i \in 1..Len(items) : items[i].fut \in {"ok", "caught"}

\* The item a pool thread is working on, with some fields changed.
Touch(w, changes) ==
    [items EXCEPT ![worker[w].item] =
        [f \in DOMAIN @ |-> IF f \in DOMAIN changes THEN changes[f] ELSE @[f]]]

\* tile_url = self.config.url_template.format(zoom=zoom, x=x, y=y)
TileUrl(zoom, x, y) == << zoom, x, y >>

\* A response of status 200 to a request for url in the current run.
OkResponse(url) ==
    [status_code |-> StatusOK, content |-> [url |-> url, gen |-> run]]

\* A response of another status, here 500.
ErrorResponse == [status_code |-> 500, content |-> << >>]

\* save_tile called with x and y exchanged.
SaveArgsSwapped(zoom, x, y, response) == << zoom, y, x, response.content >>

\* The arguments download_tile gives save_tile.
SaveArgs(zoom, x, y, response) == << zoom, x, y, response.content >>

\* ------------------------------------------------------------ pool threads ---
\* A pool whose queue is a stack: a thread takes the item submitted last.
TakeNewest(w) ==
    /\ phase \in {"submit", "running"}
    /\ w <= max_threads
    /\ worker[w].pc = "idle"
    /\ \E i \in 1..Len(items) :
           /\ items[i].fut = "pending"
           /\ \A j \in (i + 1)..Len(items) : items[j].fut # "pending"
           /\ worker' = [worker EXCEPT ![w] = [@ EXCEPT !.pc = "acquire", !.item = i]]
           /\ items' = [items EXCEPT ![i].fut = "running"]
    /\ next' = next + 1
    /\ UNCHANGED << fixed, tiles_table, run, phase, plan, semaphore, pbar,
                    conn, faults, results >>

\* A thread of the pool takes the next work item off the queue, a
\* FIFO queue (queue.SimpleQueue): the item submitted first.
Take(w) ==
    /\ phase \in {"submit", "running"}
    /\ w <= max_threads
    /\ worker[w].pc = "idle"
    /\ next <= Len(items)
    /\ worker' = [worker EXCEPT ![w] = [@ EXCEPT !.pc = "acquire", !.item = next]]
    /\ next' = next + 1
    /\ items' = [items EXCEPT ![next].fut = "running"]
    /\ UNCHANGED << fixed, tiles_table, run, phase, plan, semaphore, pbar,
                    conn, faults, results >>

\* An acquire that does not wait for a free permit.
AcquireNoWait(w) ==
    /\ worker[w].pc = "acquire"
    /\ semaphore' = semaphore - 1
    /\ worker' = [worker EXCEPT ![w].pc = "check"]
    /\ items' = Touch(w, [state |-> "CHECKING"])
    /\ UNCHANGED << fixed, tiles_table, run, phase, plan, next, pbar, conn,
                    faults, results >>

\* with self.semaphore: the acquire, which blocks while no permit is free.
Acquire(w) ==
    /\ worker[w].pc = "acquire"
    /\ semaphore > 0
    /\ semaphore' = semaphore - 1
    /\ worker' = [worker EXCEPT ![w].pc = "check"]
    /\ items' = Touch(w, [state |-> "CHECKING"])
    /\ UNCHANGED << fixed, tiles_table, run, phase, plan, next, pbar, conn,
                    faults, results >>

\* download_tile_rate_limited downloading whatever tile_exists returns.
CheckBranchAlwaysDownload(w) ==
    LET it == items[worker[w].item]
        t  == it.tile
    IN  /\ worker' = [worker EXCEPT ![w].pc = "download"]
        /\ items' = Touch(w, [state |-> "FETCHING",
                              found |-> IF TileExists(tiles_table, t[1], t[2], t[3])
                                        THEN "yes" ELSE "no",
                              exists |-> it.exists + 1])

\* if not self.mbtiles_manager.tile_exists(zoom, x, y): the branch taken.
CheckBranch(w) ==
    LET it == items[worker[w].item]
        t  == it.tile
    IN  IF ~TileExists(tiles_table, t[1], t[2], t[3])
        THEN /\ worker' = [worker EXCEPT ![w].pc = "download"]
             /\ items' = Touch(w, [state |-> "FETCHING", found |-> "no",
                                   exists |-> it.exists + 1])
        ELSE /\ worker' = [worker EXCEPT ![w].pc = "skip"]
             /\ items' = Touch(w, [state |-> "SKIPPED", found |-> "yes",
                                   exists |-> it.exists + 1])

\* The call of tile_exists, on the thread's own connection; it returns, or
\* the store raises and the exception leaves the with block.
Check(w) ==
    /\ worker[w].pc = "check"
    /\ conn' = conn \cup {w}
    /\ \/ /\ CheckBranch(w)
          /\ UNCHANGED faults
       \/ /\ faults < MaxFaults
          /\ faults' = faults + 1
          /\ worker' = [worker EXCEPT ![w] = [@ EXCEPT !.pc = "release", !.exc = TRUE]]
          /\ items' = Touch(w, [state |-> "FAILED", raised |-> "tile_exists",
                                exists |-> items[worker[w].item].exists + 1])
    /\ UNCHANGED << fixed, tiles_table, run, phase, plan, next, semaphore,
                    pbar, results >>

\* download_tile saving the content whatever the status.
OnResponseAlwaysSave(w, response) ==
    /\ worker' = [worker EXCEPT ![w] = [@ EXCEPT !.pc = "save", !.response = response]]
    /\ items' = Touch(w, [status |-> IF response.status_code = StatusOK
                                     THEN "ok" ELSE "bad",
                          fetch |-> items[worker[w].item].fetch + 1])

\* download_tile after response = self.session_manager.get(tile_url), when
\* get returned: save on status 200, a warning otherwise.
OnResponse(w, response) ==
    IF response.status_code = StatusOK
    THEN /\ worker' = [worker EXCEPT ![w] = [@ EXCEPT !.pc = "save", !.response = response]]
         /\ items' = Touch(w, [status |-> "ok",
                               fetch |-> items[worker[w].item].fetch + 1])
    ELSE /\ worker' = [worker EXCEPT ![w] = [@ EXCEPT !.pc = "finally", !.response = response]]
         /\ items' = Touch(w, [state |-> "FAILED", status |-> "bad",
                               fetch |-> items[worker[w].item].fetch + 1])

\* download_tile: the request.  The server answers 200 or another status, or
\* the transport raises.
Fetch(w) ==
    /\ worker[w].pc = "download"
    /\ LET t == items[worker[w].item].tile
       IN  \/ /\ OnResponse(w, OkResponse(TileUrl(t[1], t[2], t[3])))
              /\ UNCHANGED faults
           \/ /\ faults < MaxFaults
              /\ faults' = faults + 1
              /\ OnResponse(w, ErrorResponse)
           \/ /\ faults < MaxFaults
              /\ faults' = faults + 1
              /\ worker' = [worker EXCEPT ![w] = [@ EXCEPT !.pc = "finally", !.exc = TRUE]]
              /\ items' = Touch(w, [state |-> "FAILED", raised |-> "get",
                                    fetch |-> items[worker[w].item].fetch + 1])
    /\ UNCHANGED << fixed, tiles_table, run, phase, plan, next, semaphore,
                    pbar, conn, results >>

\* self.mbtiles_manager.save_tile(zoom, x, y, response.content): the record
\* is committed, or the store raises and nothing is written.
Save(w) ==
    /\ worker[w].pc = "save"
    /\ conn' = conn \cup {w}
    /\ LET it   == items[worker[w].item]
           t    == it.tile
           args == SaveArgs(t[1], t[2], t[3], worker[w].response)
       IN  \/ /\ tiles_table' = SaveTile(tiles_table, args[1], args[2], args[3], args[4])
              /\ worker' = [worker EXCEPT ![w].pc = "finally"]
              /\ items' = Touch(w, [state |-> "STORED", saved |-> args,
                                    save |-> it.save + 1])
              /\ UNCHANGED faults
           \/ /\ faults < MaxFaults
              /\ faults' = faults + 1
              /\ worker' = [worker EXCEPT ![w] = [@ EXCEPT !.pc = "finally", !.exc = TRUE]]
              /\ items' = Touch(w, [state |-> "FAILED", saved |-> args,
                                    raised |-> "save_tile",
                                    save |-> it.save + 1])
              /\ UNCHANGED tiles_table
    /\ UNCHANGED << fixed, run, phase, plan, next, semaphore, pbar, results >>

\* The finally block of download_tile: pbar.update(1) under the lock, then
\* close_conn for the current thread.
Finally(w) ==
    /\ worker[w].pc = "finally"
    /\ pbar' = pbar + 1
    /\ items' = Touch(w, [updates |-> items[worker[w].item].updates + 1])
    /\ conn' = conn \ {w}
    /\ worker' = [worker EXCEPT ![w].pc = "release"]
    /\ UNCHANGED << fixed, tiles_table, run, phase, plan, next, semaphore,
                    faults, results >>

\* The else branch of download_tile_rate_limited: pbar.update(1) under the
\* lock for a tile that exists.
Skip(w) ==
    /\ worker[w].pc = "skip"
    /\ pbar' = pbar + 1
    /\ items' = Touch(w, [updates |-> items[worker[w].item].updates + 1])
    /\ worker' = [worker EXCEPT ![w].pc = "release"]
    /\ UNCHANGED << fixed, tiles_table, run, phase, plan, next, semaphore,
                    conn, faults, results >>

\* The task ending without giving its permit back.
ReleaseKeepsPermit(w) ==
    /\ worker[w].pc = "release"
    /\ items' = Touch(w, [fut |-> IF worker[w].exc THEN "exc" ELSE "ok"])
    /\ worker' = [worker EXCEPT ![w] = IdleWorker]
    /\ UNCHANGED << fixed, tiles_table, run, phase, plan, next, semaphore,
                    pbar, conn, faults, results >>

\* The end of the with block: the permit is released, also when the block
\* is left by an exception; the future is done with a result or with the
\* exception, and the thread is free for the next item.
Release(w) ==
    /\ worker[w].pc = "release"
    /\ semaphore' = semaphore + 1
    /\ items' = Touch(w, [fut |-> IF worker[w].exc THEN "exc" ELSE "ok"])
    /\ worker' = [worker EXCEPT ![w] = IdleWorker]
    /\ UNCHANGED << fixed, tiles_table, run, phase, plan, next, pbar, conn,
                    faults, results >>

\* ------------------------------------------------------------- main thread ---
\* The comprehension of download_tiles has submitted every tile.
Submitted ==
    /\ phase = "submit"
    /\ Len(items) = Len(all_tiles)
    /\ phase' = "running"
    /\ UNCHANGED << fixed, tiles_table, run, plan, items, pool, results >>

\* download_tiles without the try/except round future.result(): the
\* exception leaves download_tiles.
CaughtReraise(i) ==
    /\ phase = "running"
    /\ items[i].fut = "exc"
    /\ phase' = "raised"
    /\ UNCHANGED << fixed, tiles_table, run, plan, items, pool, results >>

\* as_completed hands the main thread a future that ended with an exception:
\* future.result() raises it, the except clause logs it and updates the
\* progress bar.  (A future that ended with a result changes nothing.)
Caught(i) ==
    /\ phase = "running"
    /\ items[i].fut = "exc"
    /\ pbar' = pbar + 1
    /\ items' = [items EXCEPT ![i] = [@ EXCEPT !.fut = "caught",
                                              !.updates = @ + 1]]
    /\ UNCHANGED << fixed, tiles_table, run, phase, plan, next, semaphore,
                    worker, conn, faults, results >>

\* The number of items of the run in a terminal state.
Count(state) == Cardinality({i \in 1..Len(items) : items[i].state = state})

\* download_tiles returns once every future was handled; pbar.close().
Return ==
    /\ phase = "running"
    /\ AllHandled
    /\ phase' = "returned"
    /\ results' = Append(results, [STORED |-> Count("STORED"),
                                   SKIPPED |-> Count("SKIPPED"),
                                   FAILED |-> Count("FAILED")])
    /\ UNCHANGED << fixed, tiles_table, run, plan, items, pool >>

\* The program is started again on the same store: new objects, new pool
\* threads, the tile table as the last run left it.  MBTilesManager() calls
\* initialize_db, and the entry point calls it once more.
Rerun ==
    /\ phase = "returned"
    /\ run < MaxRuns
    /\ run' = run + 1
    /\ phase' = "init"
    /\ priority_tiles' = << >>
    /\ non_priority_tiles' = << >>
    /\ all_tiles' = << >>
    /\ total_tiles' = 0
    /\ items' = << >>
    /\ next' = 1
    /\ semaphore' = Permits(rate_limit, max_threads)
    /\ pbar' = 0
    /\ worker' = [w \in Threads |-> IdleWorker]
    /\ conn' = {}
    /\ metadata' = InitializeDb(InitializeDb(metadata))
    /\ UNCHANGED << config, calls, tiles_table, faults, results >>

Step(w) ==
    \/ Take(w)
    \/ Acquire(w)
    \/ Check(w)
    \/ Fetch(w)
    \/ Save(w)
    \/ Finally(w)
    \/ Skip(w)
    \/ Release(w)

Main ==
    \/ Plan
    \/ SubmitOne
    \/ Submitted
    \/ \E i \in 1..Len(items) : Caught(i)
    \/ Return

Next ==
    \/ Main
    \/ \E w \in Threads : Step(w)
    \/ Rerun

Spec == Init /\ [][Next]_vars

\* One run under the fairness of the thread scheduler: the main thread and
\* every pool thread that can take a step eventually takes one.
LiveNext == Main \/ \E w \in Threads : Step(w)

\* A tile table that an earlier run left with the first tile of the
\* lowest zoom level of the range.
EarlierTable(zooms) ==
    SaveTile({}, zooms[1], 0, 0,
             [url |-> TileUrl(zooms[1], 0, 0), gen |-> 0])

\* A run without a region, on an empty store or on one an earlier run left.
LiveInit ==
    /\ InitWith(RunMaxZoom, {<< >>})
    /\ tiles_table \in {{}, EarlierTable(zoom_levels)}

SpecLive ==
    /\ LiveInit
    /\ [][LiveNext]_vars
    /\ WF_vars(Main)
    /\ \A w \in Threads : WF_vars(Step(w))

\* ------------------------------------------------ tile-list specification ---
TilesInit ==
    /\ InitWith(MaxZoom, GeoJsons)
    /\ rate_limit = 1
    /\ max_threads = 1
    /\ tiles_table = {}

TilesNext == Plan \/ SubmitOne

SpecTiles == TilesInit /\ [][TilesNext]_vars

\* ------------------------------------------------- store specification ---
\* The store's methods called directly, as a test of MBTilesManager does:
\* a pool thread calls save_tile, and the main thread (thread 0, whose
\* connection __init__ opened) calls tile_exists or calls initialize_db
\* again, with any coordinate of a zoom level of the range.  Every call is
\* one sqlite transaction.

\* The body a caller saves under a coordinate: with every call a new
\* version of the tile.
Payload(zoom, x, y) ==
    [url |-> TileUrl(zoom, x, y), gen |-> Len(calls) + 1]

CallSaveTile(w, zoom, x, y, tile_data) ==
    /\ Len(calls) < MaxCalls
    /\ tiles_table' = SaveTile(tiles_table, zoom, x, y, tile_data)
    /\ conn' = conn \cup {w}
    /\ calls' = Append(calls, [thread |-> w, op |-> "save_tile",
                               args |-> << zoom, x, y, tile_data >>,
                               result |-> "None"])
    /\ UNCHANGED << config, metadata, run, phase, plan, items, next,
                    semaphore, pbar, worker, faults, results >>

CallTileExists(zoom, x, y) ==
    /\ Len(calls) < MaxCalls
    /\ calls' = Append(calls, [thread |-> 0, op |-> "tile_exists",
                               args |-> << zoom, x, y >>,
                               result |-> TileExists(tiles_table, zoom, x, y)])
    /\ UNCHANGED << config, tiles_table, metadata, run, phase, plan, items,
                    pool, results >>

\* initialize_db on the existing schema.
CallInitializeDb ==
    /\ Len(calls) < MaxCalls
    /\ metadata' = InitializeDb(metadata)
    /\ calls' = Append(calls, [thread |-> 0, op |-> "initialize_db",
                               args |-> << >>, result |-> "None"])
    /\ UNCHANGED << config, tiles_table, run, phase, plan, items, pool,
                    results >>

\* A new store, and a configuration with the widest zoom range and the
\* most threads (the store does not read the configuration).
StoreInit ==
    /\ InitWith(RunMaxZoom, {<< >>})
    /\ zoom_levels = << 0, RunMaxZoom >>
    /\ rate_limit = 1
    /\ max_threads = MaxThreads
    /\ tiles_table = {}

StoreNext ==
    \/ \E zoom \in zoom_levels[1]..zoom_levels[2] :
       \E x, y \in 0..(Pow2(zoom) - 1) :
           \/ \E w \in 1..max_threads :
                  CallSaveTile(w, zoom, x, y, Payload(zoom, x, y))
           \/ CallTileExists(zoom, x, y)
    \/ CallInitializeDb

SpecStore == StoreInit /\ [][StoreNext]_vars

\* ================================================================ claims ===
\* The full grid of a zoom range, as a set.
FullSet(zooms) ==
    UNION {{<< z, x, y >> : << x, y >> \in (0..(Pow2(z) - 1)) \X (0..(Pow2(z) - 1))} :
           z \in zooms[1]..zooms[2]}

Indices == 1..Len(items)

Terminal == {"SKIPPED", "STORED", "FAILED"}

\* The future of item i is done: its task returned or raised.
TaskOver(i) == items[i].fut \in {"ok", "exc", "caught"}

\* The records of the tile table under the stored key of XYZ tile t:
\* (zoom, column, row) with row = 2^zoom - 1 - y.
RecordsOf(t) ==
    {r \in tiles_table : /\ r.zoom_level = t[1]
                         /\ r.tile_column = t[2]
                         /\ r.tile_row = 2 ^ t[1] - 1 - t[3]}

\* (zoom, x, y) in ascending order of zoom, then x, then y.
LexLess(a, b) ==
    \/ a[1] < b[1]
    \/ a[1] = b[1] /\ a[2] < b[2]
    \/ a[1] = b[1] /\ a[2] = b[2] /\ a[3] < b[3]

\* The body the server sends for tile t in the current run.
BodyOf(t) == [url |-> t, gen |-> run]

\* ---------------------------------------------------------------------- C1
\* C1: the progress counter is incremented exactly once per work item,
\* whichever way the item ends, so that it equals the number of submitted
\* items when download_tiles returns.
C1_ProgressOncePerItem ==
    /\ \A i \in Indices : items[i].updates <= 1
    /\ phase = "returned" =>
         /\ \A i \in Indices : items[i].updates = 1
         /\ pbar = Len(items)

\* ---------------------------------------------------------------------- C2
\* C2: in every interleaving of the pool threads of a run, each coordinate
\* is processed at most once: over all tasks of the run at most one call of
\* tile_exists, one fetch and one call of save_tile is made for it.
C2_AtMostOncePerCoordinate ==
    \A i, j \in Indices :
        items[i].tile = items[j].tile =>
            /\ items[i].exists + (IF i = j THEN 0 ELSE items[j].exists) <= 1
            /\ items[i].fetch + (IF i = j THEN 0 ELSE items[j].fetch) <= 1
            /\ items[i].save + (IF i = j THEN 0 ELSE items[j].save) <= 1

\* Two threads ran a five-tile run with a region to its end, and every tile
\* was checked.
C2_Witness ==
    /\ phase = "returned"
    /\ max_threads = 2
    /\ priority_tiles # << >>
    /\ non_priority_tiles # << >>
    /\ Len(items) = 5
    /\ \A i \in Indices : items[i].exists = 1
    /\ \E i \in Indices : items[i].save = 1

\* ---------------------------------------------------------------------- C3
\* C3: for every zoom range and every region (or none), all_tiles holds
\* every coordinate of the full grid exactly once: priority and remainder
\* are disjoint, their union is the full set, and len(all_tiles) equals
\* total_tiles, the sum of 4^zoom over the range.  (A list holds each of
\* its elements once when it has as many elements as positions.)
C3_WorkSetIsFullGrid ==
    phase # "init" =>
        LET full == FullSet(zoom_levels)
            prio == {priority_tiles[k] : k \in 1..Len(priority_tiles)}
            rest == {non_priority_tiles[k] : k \in 1..Len(non_priority_tiles)}
            all  == {all_tiles[k] : k \in 1..Len(all_tiles)}
        IN  /\ all = full
            /\ Cardinality(all) = Len(all_tiles)
            /\ prio \cap rest = {}
            /\ prio \cup rest = full
            /\ Len(all_tiles) = total_tiles
            /\ total_tiles = Cardinality(full)

\* The 21 tiles of zoom range (0, 2), split by a region into a priority
\* part and a remainder.
C3_Witness ==
    /\ phase = "submit"
    /\ zoom_levels = << 0, 2 >>
    /\ Len(priority_tiles) > 1
    /\ Len(non_priority_tiles) > 1
    /\ Len(all_tiles) = 21
    /\ total_tiles = 21

\* ---------------------------------------------------------------------- C4
\* Every submitted item is in a terminal state, download_tiles has returned
\* and the counts of STORED, SKIPPED and FAILED sum to the size of the full
\* coordinate set.
RunComplete ==
    /\ phase = "returned"
    /\ Len(items) = Cardinality(FullSet(zoom_levels))
    /\ \A i \in Indices : items[i].state \in Terminal
    /\ LET r == results[Len(results)]
       IN  r.STORED + r.SKIPPED + r.FAILED = Cardinality(FullSet(zoom_levels))

\* C4 as stated: for max_threads >= 1 and rate_limit >= 0 a run proceeds to
\* completion under fair scheduling.
C4_CompletesForAnyRate == <>RunComplete

\* C4, amended: for max_threads >= 1 and rate_limit >= 1 a run proceeds to
\* completion under fair scheduling: every submitted item reaches a terminal
\* state, which it then keeps, download_tiles returns, and the counts of
\* STORED, SKIPPED and FAILED sum to the size of the full coordinate set.
\* (With rate_limit = 0 the semaphore has no permit and every task blocks.)
C4_CompletesForPositiveRate ==
    /\ (rate_limit >= 1) => <>RunComplete
    /\ [][\A i \in Indices :
             items[i].state \in Terminal =>
                 /\ i <= Len(items')
                 /\ items'[i].state = items[i].state]_vars

\* A run over zoom range (0, 1) completed with one failed, one skipped and
\* three stored items: the counts sum to 5.
C4_Witness ==
    /\ RunComplete
    /\ rate_limit >= 1
    /\ zoom_levels = << 0, 1 >>
    /\ results[1].FAILED = 1
    /\ results[1].SKIPPED = 1
    /\ results[1].STORED = 3

\* ---------------------------------------------------------------------- C5
SomeRaised == \E i \in Indices : items[i].raised # "none"

\* C5: a per-tile error never stops the run: an item for which the fetch,
\* tile_exists or save_tile raises is FAILED, and from then on the run
\* still goes on to the state in which every submitted item is in a
\* terminal state and download_tiles has returned normally.
C5_ErrorsDoNotStopRun ==
    /\ [](\A i \in Indices : items[i].raised # "none" => items[i].state = "FAILED")
    /\ [](phase # "raised")
    /\ SomeRaised ~> (RunComplete /\ SomeRaised)

\* The first submitted item raised, and the run returned with the other
\* three items stored.
C5_Witness ==
    /\ phase = "returned"
    /\ Len(items) = 4
    /\ items[1].raised # "none"
    /\ items[1].fut = "caught"
    /\ tiles_table # {}
    /\ \A i \in 2..4 : items[i].state = "STORED"

\* ---------------------------------------------------------------------- C6
\* C6: from an empty tile table and with a fetcher that always returns 200
\* (and a store that never fails), the first run ends with every item
\* STORED and none SKIPPED or FAILED (4 stored for zoom range (1, 1)); a
\* later run over the same range on the same store ends with every item
\* SKIPPED, none STORED or FAILED, and issues no fetch.
C6_RunThenRerun ==
    faults = 0 =>
        /\ run = 1 =>
             /\ \A i \in Indices : items[i].state \notin {"SKIPPED", "FAILED"}
             /\ phase = "returned" =>
                  /\ results[1] = [STORED |-> Len(all_tiles), SKIPPED |-> 0,
                                   FAILED |-> 0]
                  /\ zoom_levels = << 1, 1 >> => results[1].STORED = 4
        /\ run > 1 =>
             /\ \A i \in Indices :
                    /\ items[i].fetch = 0
                    /\ items[i].state \notin {"FETCHING", "STORED", "FAILED"}
             /\ phase = "returned" =>
                  results[run] = [STORED |-> 0, SKIPPED |-> Len(all_tiles),
                                  FAILED |-> 0]

\* zoom range (1, 1), two threads: the first run stored 4, the second
\* skipped 4.
C6_Witness ==
    /\ phase = "returned"
    /\ run = 2
    /\ faults = 0
    /\ zoom_levels = << 1, 1 >>
    /\ max_threads = 2
    /\ results = << [STORED |-> 4, SKIPPED |-> 0, FAILED |-> 0],
                    [STORED |-> 0, SKIPPED |-> 4, FAILED |-> 0] >>

\* ---------------------------------------------------------------------- C7
\* C7: whenever tile_exists returns true for an item's coordinate, the item
\* is SKIPPED: no fetch and no save_tile is made for it, and the payload
\* stored for the coordinate is the one an earlier run left there.
C7_ExistingTileIsSkipped ==
    \A i \in Indices :
        items[i].found = "yes" =>
            /\ items[i].state = "SKIPPED"
            /\ items[i].fetch = 0
            /\ items[i].save = 0
            /\ \A j \in Indices :
                   items[j].tile = items[i].tile => items[j].save = 0
            /\ Cardinality(RecordsOf(items[i].tile)) = 1
            /\ \A r \in RecordsOf(items[i].tile) :
                   /\ r.tile_data.url = items[i].tile
                   /\ r.tile_data.gen < run

\* The task of an item whose tile an earlier run had stored is over, in a
\* run in which another tile was fetched.
C7_Witness ==
    /\ run = 2
    /\ \E i, j \in Indices :
           /\ items[i].found = "yes"
           /\ items[i].fut = "ok"
           /\ items[j].state = "STORED"

\* ---------------------------------------------------------------------- C8
\* C8: whenever the fetch for a coordinate returns a status other than 200
\* or the transport raises, the item is FAILED, no second fetch is made,
\* save_tile is not called for it and the store holds no record for the
\* coordinate (status 500 for (0, 0, 0) with zoom range (0, 0) gives
\* STORED = 0, FAILED = 1 and no record).
C8_FailedFetchStoresNothing ==
    /\ \A i \in Indices :
           (items[i].status = "bad" \/ items[i].raised = "get") =>
               /\ items[i].state = "FAILED"
               /\ items[i].fetch = 1
               /\ items[i].save = 0
               /\ RecordsOf(items[i].tile) = {}
    /\ (/\ phase = "returned"
        /\ zoom_levels = << 0, 0 >>
        /\ items[1].status = "bad") =>
           /\ results[run].STORED = 0
           /\ results[run].FAILED = 1
           /\ tiles_table = {}

\* The run over zoom range (0, 0) returned after status 500 for (0, 0, 0).
C8_Witness ==
    /\ phase = "returned"
    /\ zoom_levels = << 0, 0 >>
    /\ items[1].status = "bad"
    /\ items[1].tile = << 0, 0, 0 >>
    /\ results[run].FAILED = 1

\* ---------------------------------------------------------------------- C9
\* save_tile was called once for item i, with the item's own coordinate and
\* the body of the response.
SavedOwnBody(i) ==
    /\ items[i].save = 1
    /\ items[i].saved = << items[i].tile[1], items[i].tile[2], items[i].tile[3],
                           BodyOf(items[i].tile) >>

\* The store holds the body of item i's response under the item's own
\* coordinate.
StoreHoldsBody(i) ==
    /\ Cardinality(RecordsOf(items[i].tile)) = 1
    /\ \A r \in RecordsOf(items[i].tile) : r.tile_data = BodyOf(items[i].tile)

\* C9 as stated: whenever the fetch returns 200, save_tile is called exactly
\* once with the item's coordinate and the response body, and after the
\* task the store holds that body under the coordinate and the item is
\* STORED.
C9_FetchedTileIsStored ==
    \A i \in Indices :
        (items[i].status = "ok" /\ TaskOver(i)) =>
            /\ SavedOwnBody(i)
            /\ StoreHoldsBody(i)
            /\ items[i].state = "STORED"

\* C9, amended: whenever the fetch returns 200, save_tile is called exactly
\* once with the item's coordinate and the response body; if save_tile
\* returns, the store then holds that body under the coordinate and the
\* item is STORED; if save_tile raises, the item is FAILED and the store
\* holds no record of this run for the coordinate.
C9_FetchedTileIsSaved ==
    \A i \in Indices :
        (items[i].status = "ok" /\ TaskOver(i)) =>
            /\ SavedOwnBody(i)
            /\ items[i].raised = "none" =>
                   (StoreHoldsBody(i) /\ items[i].state = "STORED")
            /\ items[i].raised # "none" =>
                   /\ items[i].raised = "save_tile"
                   /\ items[i].state = "FAILED"
                   /\ RecordsOf(items[i].tile) = {}

\* The task of tile (1, 0, 1) is over: fetched with status 200 and stored.
C9_Witness ==
    \E i \in Indices :
        /\ items[i].tile = << 1, 0, 1 >>
        /\ items[i].status = "ok"
        /\ items[i].fut = "ok"
        /\ items[i].state = "STORED"
        /\ StoreHoldsBody(i)

\* --------------------------------------------------------------------- C10
\* The geometry filter's verdict on tile t, for the region of the run.
IsPriority(t) ==
    /\ geojson # << >>
    /\ LET side == Grid \div (2 ^ t[1])
           g == geojson[1]
       IN  /\ t[2] * side <= g.xhi /\ g.xlo <= (t[2] + 1) * side
           /\ Grid - (t[3] + 1) * side <= g.yhi /\ g.ylo <= Grid - t[3] * side

\* C10: the submission order is priority-first: every priority tile is
\* submitted to the pool before any remainder tile, and within the priority
\* tiles and within the remainder the order is ascending zoom, then x,
\* then y.  (The order "priority before remainder, then ascending" is
\* transitive, so it is stated for each item and the one submitted next.)
C10_PriorityFirstSubmission ==
    /\ \A k \in Indices : items[k].tile = all_tiles[k]
    /\ \A i \in Indices :
           i < Len(items) =>
               LET a == items[i].tile
                   b == items[i + 1].tile
               IN  \/ IsPriority(a) /\ ~IsPriority(b)
                   \/ (IsPriority(a) <=> IsPriority(b)) /\ LexLess(a, b)

\* Every tile of zoom range (0, 2) is submitted, and a priority tile was
\* submitted before a remainder tile that precedes it in the grid.
C10_Witness ==
    /\ phase = "submit"
    /\ zoom_levels = << 0, 2 >>
    /\ Len(items) = 21
    /\ \E i, j \in Indices :
           /\ i < j
           /\ IsPriority(items[i].tile)
           /\ ~IsPriority(items[j].tile)
           /\ LexLess(items[j].tile, items[i].tile)

\* --------------------------------------------------------------------- C11
\* The items between the acquire of the semaphore and a terminal state.
InFlight == {i \in Indices : items[i].state \in {"CHECKING", "FETCHING"}}

\* The pool threads inside the with block of download_tile_rate_limited.
Holders ==
    {w \in Threads :
         worker[w].pc \in {"check", "download", "save", "finally", "skip",
                           "release"}}

\* C11: in every reachable state of a run the number of items in CHECKING
\* or FETCHING is at most max_threads and at most rate_limit * max_threads;
\* the permit is acquired before the existence check (a thread that calls
\* tile_exists, fetches or saves holds one) and is given back on every way
\* out of the task, also when the task raises: the free permits and the
\* threads inside the with block always add up to the semaphore's size, and
\* a thread whose task is over holds none.
C11_AdmissionBound ==
    /\ Cardinality(InFlight) <= max_threads
    /\ Cardinality(InFlight) <= rate_limit * max_threads
    /\ semaphore >= 0
    /\ semaphore + Cardinality(Holders) = rate_limit * max_threads
    /\ \A i \in InFlight :
           \E w \in Holders : worker[w].item = i
    /\ \A i \in Indices :
           (items[i].exists > 0 \/ items[i].fetch > 0 \/ items[i].save > 0) =>
               items[i].state \notin {"PENDING"}
    /\ \A i \in Indices :
           TaskOver(i) => \A w \in Threads : worker[w].item # i
    /\ phase = "returned" => semaphore = rate_limit * max_threads

\* Two threads with one permit each are both between acquire and a terminal
\* state, no permit is free, and the task of another item has raised and
\* is over.
C11_Witness ==
    /\ rate_limit = 1
    /\ max_threads = 2
    /\ Cardinality(InFlight) = 2
    /\ semaphore = 0
    /\ \E i \in Indices : items[i].raised # "none" /\ items[i].fut = "exc"

\* --------------------------------------------------------------------- C12
\* The step is a direct call of the store method op.
Called(op) ==
    /\ Len(calls') = Len(calls) + 1
    /\ calls'[Len(calls')].op = op

\* The call the step made.
TheCall == calls'[Len(calls')]

\* The rows of zoom level zoom: [0, 2^zoom).
Rows(zoom) == 0..(2 ^ zoom - 1)

\* C12: tile_exists and save_tile each apply the row flip
\* row = 2^zoom - 1 - y once and agree on it.  For every zoom of the range
\* and all x, y, y' in [0, 2^zoom): save_tile(zoom, x, y, p) writes p under
\* row 2^zoom - 1 - y; after it tile_exists(zoom, x, y) is true and
\* tile_exists(zoom, x, y') for y' # y is what it was before;
\* tile_exists(zoom, x, y) is true exactly when a record of row
\* 2^zoom - 1 - y exists; the flip is a bijection on [0, 2^zoom) and applying
\* it twice gives y back.
C12_RowFlipAgrees ==
    /\ [][Called("save_tile") =>
            LET zoom == TheCall.args[1]
                x    == TheCall.args[2]
                y    == TheCall.args[3]
                p    == TheCall.args[4]
            IN  /\ [zoom_level |-> zoom, tile_column |-> x,
                    tile_row |-> 2 ^ zoom - 1 - y, tile_data |-> p]
                       \in tiles_table'
                /\ TileExists(tiles_table', zoom, x, y)
                /\ \A y2 \in Rows(zoom) \ {y} :
                       TileExists(tiles_table', zoom, x, y2)
                           = TileExists(tiles_table, zoom, x, y2)]_vars
    /\ [][Called("tile_exists") =>
            LET zoom == TheCall.args[1]
                x    == TheCall.args[2]
                y    == TheCall.args[3]
            IN  TheCall.result =
                    (\E r \in tiles_table :
                         /\ r.zoom_level = zoom
                         /\ r.tile_column = x
                         /\ r.tile_row = 2 ^ zoom - 1 - y)]_vars
    /\ [](\A zoom \in zoom_levels[1]..zoom_levels[2] :
              /\ \A y \in Rows(zoom) :
                     /\ FlipRow(zoom, y) \in Rows(zoom)
                     /\ FlipRow(zoom, FlipRow(zoom, y)) = y
              /\ \A y, y2 \in Rows(zoom) :
                     FlipRow(zoom, y) = FlipRow(zoom, y2) => y = y2
              /\ {FlipRow(zoom, y) : y \in Rows(zoom)} = Rows(zoom))

\* save_tile(1, x, 0, p) wrote row 1, and the tile_exists(1, x, 0) that
\* followed returned true, while no record exists for (1, x, 1).
C12_Witness ==
    /\ Len(calls) = 2
    /\ calls[1].op = "save_tile"
    /\ calls[1].args[1] = 1
    /\ calls[1].args[3] = 0
    /\ calls[2].op = "tile_exists"
    /\ calls[2].args = << 1, calls[1].args[2], 0 >>
    /\ calls[2].result = TRUE
    /\ \E r \in tiles_table : r.tile_row = 1
    /\ ~TileExists(tiles_table, 1, calls[1].args[2], 1)

\* --------------------------------------------------------------------- C13
\* The records of table tbl under the stored key of XYZ tile (zoom, x, y).
UnderKey(tbl, zoom, x, y) ==
    {r \in tbl : /\ r.zoom_level = zoom
                 /\ r.tile_column = x
                 /\ r.tile_row = 2 ^ zoom - 1 - y}

\* C13: save_tile is an upsert.  After any sequence of save_tile calls the
\* tile table holds at most one record per (zoom, column, row) key; a save
\* leaves exactly one record under its key, with the payload of that save
\* (so after two saves of one coordinate the payload is that of the last),
\* and tile_exists is then true for the coordinate; and a save leaves the
\* records of all other keys as they were, whichever threads make the
\* saves.
C13_SaveIsUpsert ==
    /\ [](\A r1, r2 \in tiles_table :
              (/\ r1.zoom_level = r2.zoom_level
               /\ r1.tile_column = r2.tile_column
               /\ r1.tile_row = r2.tile_row) => r1 = r2)
    /\ [][Called("save_tile") =>
            LET zoom == TheCall.args[1]
                x    == TheCall.args[2]
                y    == TheCall.args[3]
                p    == TheCall.args[4]
            IN  /\ UnderKey(tiles_table', zoom, x, y) =
                       {[zoom_level |-> zoom, tile_column |-> x,
                         tile_row |-> 2 ^ zoom - 1 - y, tile_data |-> p]}
                /\ TileExists(tiles_table', zoom, x, y)
                /\ tiles_table' \ UnderKey(tiles_table', zoom, x, y)
                       = tiles_table \ UnderKey(tiles_table, zoom, x, y)]_vars

\* Two threads saved the same coordinate one after the other with different
\* payloads: the table holds one record, with the payload of the second
\* save.
C13_Witness ==
    /\ Len(calls) = 2
    /\ calls[1].op = "save_tile"
    /\ calls[2].op = "save_tile"
    /\ calls[1].thread # calls[2].thread
    /\ calls[1].args[1] = calls[2].args[1]
    /\ calls[1].args[2] = calls[2].args[2]
    /\ calls[1].args[3] = calls[2].args[3]
    /\ calls[1].args[4] # calls[2].args[4]
    /\ Cardinality(tiles_table) = 1
    /\ \A r \in tiles_table : r.tile_data = calls[2].args[4]

\* --------------------------------------------------------------------- C14
\* C14: each worker's store handle is private to that worker and released
\* when the task completes.  A connection lives in the thread-local storage
\* of the thread that opened it, so conn holds the threads with an open
\* connection of their own and no connection has two users; and a pool
\* thread whose task is over, whichever way it ended (skipped, stored,
\* failed fetch, or an exception from tile_exists, the fetch or save_tile),
\* holds no open connection.
C14_ConnectionClosedAfterTask ==
    /\ conn \subseteq {w \in Threads : w <= max_threads}
    /\ \A w \in Threads : worker[w].pc = "idle" => w \notin conn

\* --------------------------------------------------------------------- C15
\* C15: with the filter's intersection test (touching counts as
\* intersecting), a region that exactly covers the bounding box of tile
\* (1, 0, 0) makes tiles_in_priority_zones(1, region) select (1, 0, 0) and
\* not select the diagonally opposite tile (1, 1, 1).
C15_DiagonalTileNotSelected ==
    (/\ phase = "submit"
     /\ zoom_levels = << 1, 1 >>
     /\ geojson = << TileRegion(1, 0, 0) >>) =>
        /\ priority_tiles = TilesInPriorityZones(1, geojson)
        /\ InList(<< 1, 0, 0 >>, priority_tiles)
        /\ ~InList(<< 1, 1, 1 >>, priority_tiles)

\* --------------------------------------------------------------------- C16
\* The (name, value) entries of a metadata table.
Entries(tbl) == {<< r.name, r.value >> : r \in tbl}

\* One row per name.
UniqueNames(tbl) == \A r1, r2 \in tbl : r1.name = r2.name => r1 = r2

\* C16: store initialization is idempotent.  A call of initialize_db on a
\* store whose schema exists leaves every tile record and every metadata
\* entry as it was, and the metadata table holds exactly one entry per
\* name: the five entries of initialize_db.
C16_InitializeDbIdempotent ==
    /\ [][Called("initialize_db") =>
            /\ tiles_table' = tiles_table
            /\ Entries(metadata') = Entries(metadata)
            /\ UniqueNames(metadata')]_vars
    /\ [](UniqueNames(metadata))
    /\ [](Entries(metadata) =
              {<< DefaultMetadata[k][1], DefaultMetadata[k][2] >> :
                   k \in 1..Len(DefaultMetadata)})
    /\ [](Cardinality(metadata) = Len(DefaultMetadata))

\* initialize_db was called on a store that holds a tile record saved
\* before the call, and the record and the five entries are there.
C16_Witness ==
    /\ Len(calls) = 2
    /\ calls[1].op = "save_tile"
    /\ calls[2].op = "initialize_db"
    /\ Cardinality(tiles_table) = 1
    /\ \A r \in tiles_table : r.tile_data = calls[1].args[4]
    /\ Cardinality(metadata) = 5
    /\ \E r \in metadata : r.name = "format" /\ r.value = "png"

\* --------------------------------------------------------------------- C17
\* C17: whenever rate_limit >= 1 the admission semaphore never makes a
\* worker wait.  Only the max_threads pool threads acquire it, each holds at
\* most one permit, and its size rate_limit * max_threads is at least
\* max_threads: in every reachable state a thread at the acquire finds a
\* free permit, and the free permits are the (rate_limit - 1) * max_threads
\* that are never used plus one for every pool thread outside the with
\* block.  The acquire's guard is therefore true wherever it is evaluated,
\* and the steps a run can take do not depend on rate_limit.
C17_AcquireNeverWaits ==
    rate_limit >= 1 =>
        /\ \A w \in Threads : worker[w].pc = "acquire" => semaphore > 0
        /\ \A w \in Threads : worker[w].pc = "acquire" => ENABLED Acquire(w)
        /\ Holders \subseteq 1..max_threads
        /\ semaphore = (rate_limit - 1) * max_threads
                           + (max_threads - Cardinality(Holders))

\* With one permit per thread, one thread is inside the with block and the
\* other is at the acquire, where the last permit is free.
C17_Witness ==
    /\ rate_limit = 1
    /\ max_threads = 2
    /\ \E w, v \in Threads :
           /\ worker[w].pc = "acquire"
           /\ v \in Holders
    /\ semaphore = 1

\* --------------------------------------------------------------------- C18
\* A pool thread has picked item i up.
Picked(i) == items[i].fut # "pending"

\* C18: workers take items from the pool's queue in submission order, so in
\* every interleaving, once a remainder tile is picked up by a worker, every
\* priority tile is submitted and picked up: no remainder tile starts while
\* a priority tile waits in the queue (or is not yet submitted).  Picked
\* items stay picked, so this is stated of every state of a run.
C18_PriorityPickedFirst ==
    /\ \A i, j \in Indices : (i < j /\ Picked(j)) => Picked(i)
    /\ \A j \in Indices :
           (Picked(j) /\ ~IsPriority(items[j].tile)) =>
               /\ Len(priority_tiles) < j
               /\ \A k \in 1..Len(priority_tiles) :
                      /\ items[k].tile = priority_tiles[k]
                      /\ IsPriority(items[k].tile)
                      /\ Picked(k)

\* Two threads: a remainder tile is picked up while the last priority tile
\* is still being worked on, and other remainder tiles wait in the queue.
C18_Witness ==
    /\ max_threads = 2
    /\ Len(priority_tiles) = 2
    /\ Len(items) = 5
    /\ items[2].state \in {"CHECKING", "FETCHING"}
    /\ Picked(3)
    /\ ~IsPriority(items[3].tile)
    /\ ~Picked(4)

\* --------------------------------------------------------------------- C19
\* C19: a run only adds records.  No step of a run deletes a record or
\* changes its payload, in every interleaving and for every fetcher
\* behaviour, so every record the tile table holds when a run starts is
\* there with the same payload when the run ends; and no save_tile is made
\* in a run for a coordinate that had a record when the run started.
C19_RunOnlyAddsRecords ==
    /\ [][tiles_table \subseteq tiles_table']_vars
    /\ [](\A i \in Indices :
              (\E r \in RecordsOf(items[i].tile) : r.tile_data.gen < run) =>
                  items[i].save = 0)

\* The second run has returned: it skipped the tiles the first run stored
\* and stored the tile the first run failed on, so the table holds records
\* of both runs.
C19_Witness ==
    /\ run = 2
    /\ phase = "returned"
    /\ results[1].FAILED = 1
    /\ results[2].SKIPPED >= 1
    /\ results[2].STORED = 1
    /\ \E r \in tiles_table : r.tile_data.gen = 1
    /\ \E r \in tiles_table : r.tile_data.gen = 2

=============================================================================
